---- MODULE Spec2Model ----
(***************************************************************************)
(* Model of the Copilot proxy server (src/unnamed/part_000, src/index.js). *)
(*                                                                         *)
(* One shared Copilot adapter caches a conversation identity; every POST   *)
(* /api/ai request validates its query, calls copilot.chat and maps the    *)
(* settled promise to an HTTP response.  chat lazily creates the           *)
(* conversation over HTTP, opens one WebSocket and accumulates the frames  *)
(* the backend streams into a per-call response object.                    *)
(*                                                                         *)
(* Node runs the handlers on one thread: every action below is one run of  *)
(* the event loop from one await point (or event callback) to the next.    *)
(* Strings are modelled as sequences of one-character strings, so that     *)
(* concatenation and trim are computed rather than assumed.                *)
(***************************************************************************)
EXTENDS Integers, Sequences, FiniteSets, TLC

(***************************************************************************)
(* Bounds of the model.                                                    *)
(***************************************************************************)
NumReq == 3         \* concurrent requests when the backend streams nothing
MaxFrames == 3      \* frames received when a single request is served
MaxPairFrames == 1  \* frames received, over both connections, by two requests

Reqs == 1..NumReq

(***************************************************************************)
(* Values.                                                                 *)
(***************************************************************************)
Null == <<>>                       \* this.conversationId = null
ConvId(n) == <<"conv", n>>         \* data.id of the n-th created conversation
Undefined == "undefined"           \* a property read that finds nothing
Inherited == "inherited"           \* a property found on Object.prototype

\* req.body.query as JSON delivers it: absent, a number, or a string.
QUndefined == [type |-> "undefined", num |-> 0, str |-> <<>>]
QNumber(n) == [type |-> "number", num |-> n, str |-> <<>>]
QString(s) == [type |-> "string", num |-> 0, str |-> s]
Queries ==
    {QUndefined, QNumber(0), QNumber(7),
     QString(<<>>), QString(<<" ">>), QString(<<"a">>)}

\* Model selectors a caller of chat may pass; the last two are not keys of
\* this.models ("constructor" is a property every object inherits).
Selectors == {"default", "think-deeper", "gpt-5", "gpt-4", "constructor"}

\* A JSON field that may be absent from the object.
Absent == [present |-> FALSE, val |-> <<>>]
Some(v) == [present |-> TRUE, val |-> v]

\* Frames the backend may stream, as the objects JSON.parse yields; a frame
\* that JSON.parse rejects (or parses to null) has event "malformed".
Frame(e, t, c, m) ==
    [event |-> e, text |-> t, title |-> c, iconUrl |-> c, url |-> c, message |-> m]
TextFrames ==
    {Frame("appendText", t, 0, Absent) : t \in {Some(<<"a">>), Some(<<" ">>), Absent}}
CitationFrames == {Frame("citation", Absent, c, Absent) : c \in {1, 2}}
DoneFrame == Frame("done", Absent, 0, Absent)
ErrorFrames ==
    {Frame("error", Absent, 0, m) : m \in {Some(<<"b", "a", "d">>), Some(<<>>), Absent}}
OtherFrame == Frame("ping", Absent, 0, Absent)
MalformedFrame == Frame("malformed", Absent, 0, Absent)
Frames ==
    TextFrames \cup CitationFrames \cup ErrorFrames
        \cup {DoneFrame, OtherFrame, MalformedFrame}

\* err.message of a WebSocket 'error' event.
TransportMessages == {<<"E">>}

(***************************************************************************)
(* Pure helpers.                                                           *)
(***************************************************************************)
IsSpace(c) == c = " "

RECURSIVE TrimStart(_)
TrimStart(s) ==
    IF s = <<>> THEN <<>>
    ELSE IF IsSpace(Head(s)) THEN TrimStart(Tail(s)) ELSE s

RECURSIVE TrimEnd(_)
TrimEnd(s) ==
    IF s = <<>> THEN <<>>
    ELSE IF IsSpace(s[Len(s)]) THEN TrimEnd(SubSeq(s, 1, Len(s) - 1)) ELSE s

\* String.prototype.trim
Trim(s) == TrimEnd(TrimStart(s))

\* JavaScript truthiness of the query value.
Falsy(q) ==
    \/ q.type = "undefined"
    \/ q.type = "number" /\ q.num = 0
    \/ q.type = "string" /\ q.str = <<>>

\* Mutant: the blank check compares without trimming.
InvalidQueryUntrimmed(q) ==
    \/ Falsy(q)
    \/ q.type # "string"

\* !query || typeof query !== 'string' || query.trim() === ''
InvalidQuery(q) ==
    \/ Falsy(q)
    \/ q.type # "string"
    \/ Trim(q.str) = <<>>

\* this.models
Models ==
    [m \in {"default", "think-deeper", "gpt-5"} |->
        CASE m = "default" -> "chat"
          [] m = "think-deeper" -> "reasoning"
          [] m = "gpt-5" -> "smart"]

\* Properties every plain object inherits from Object.prototype.
ProtoProps == {"constructor"}

\* this.models[model]
ModelLookup(m) ==
    IF m \in DOMAIN Models THEN Models[m]
    ELSE IF m \in ProtoProps THEN Inherited
    ELSE Undefined

\* !this.models[model]
UnknownModel(m) == ModelLookup(m) = Undefined

\* Error messages.
MsgCreateFailed == <<"Failed to create a new conversation with the AI service.">>
MsgModels == <<"Available models: ", "default", ", ", "think-deeper", ", ", "gpt-5">>
MsgUnknown == <<"An unknown error occurred during the AI chat.">>
MsgProcess == <<"Failed to process message from AI service.">>
MsgWebSocket(m) == <<"WebSocket error: ">> \o m

\* x || d for a field holding a string: absent and "" are both falsy.
OrElse(x, d) == IF x.present /\ x.val # <<>> THEN x.val ELSE d

\* The prompt template of the handler: instructions.join(' ') and the query
\* under the fixed delimiter.  A string interpolates as itself, a number as
\* its decimal digits (one symbol here).
Interp(x) == IF x.type = "string" THEN x.str ELSE <<"#">>
FinalPrompt(q, customModel, language) ==
    LET persona ==
            IF ~Falsy(customModel) /\ Trim(customModel.str) # <<>>
            THEN <<"Anda adalah AI yang harus berperan sebagai: \"">>
                     \o customModel.str
                     \o <<"\". Pertahankan karakter ini dalam jawaban Anda.", " ">>
            ELSE <<>>
        outputLanguage == IF Falsy(language) THEN <<"Indonesia">> ELSE Interp(language)
    IN  persona
            \o <<"Anda harus menjawab secara eksklusif dalam Bahasa ">>
            \o outputLanguage \o <<".", "\n\n---\n\nPERTANYAAN:\n">> \o q.str

\* customModel.trim() on a truthy value that is no string throws a TypeError.
PersonaThrows(customModel) == ~Falsy(customModel) /\ customModel.type # "string"
MsgTrim == <<"customModel.trim is not a function">>

\* Persona / language labels a request may carry.
Personas == {QUndefined, QString(<<"P">>), QNumber(7)}
Languages == {QUndefined, QString(<<"E">>)}

\* The loads the model explores: one request with a long stream and every
\* kind of input ("solo"), two requests with a short stream ("pair"), many
\* well-formed requests whose connections open and then stay silent: no
\* frame, no error and no close ("crowd").
Loads == {"solo", "pair", "crowd"}
LoadReqs(l) == CASE l = "solo" -> 1 [] l = "pair" -> 2 [] OTHER -> NumReq
LoadFrames(l) == CASE l = "solo" -> MaxFrames [] l = "pair" -> MaxPairFrames [] OTHER -> 0
LoadSilent(l) == l = "crowd"
LoadInputs(l) ==
    CASE l = "solo" -> Queries \X Personas \X Languages
      [] l = "pair" -> Queries \X {QUndefined, QNumber(7)} \X {QUndefined}
      [] OTHER -> {<<QString(<<"a">>), QUndefined, QUndefined>>}

\* Messages a direct caller of chat may pass.
Messages == {<<"a">>}

(***************************************************************************)
(* State.                                                                  *)
(***************************************************************************)
VARIABLES
    load,            \* the load of this run, one of Loads
    conversationId,  \* copilot.conversationId of the shared adapter
    nextConv,        \* conversations the backend has issued so far
    pc,              \* where each request's handler (or caller) stands
    query,           \* req.body.query of each request
    message,         \* the message argument of each chat call
    model,           \* the model selector of each chat call
    chatCalls,       \* calls of copilot.chat made for each request
    created,         \* creation calls (axios.post) issued for each request
    wsOpened,        \* WebSockets constructed for each request
    readyState,      \* ws.readyState of each request's WebSocket
    sent,            \* frames sent with ws.send, in order
    response,        \* the per-call response object {text, citations}
    promise,         \* the promise chat returns: state and rejection message
    received,        \* frames delivered to ws.on('message'), in order
    startId,         \* conversationId as chat found it when it was called
    createdId,       \* data.id the creation call of each request returned
    aiResponse,      \* what the awaiting caller got from chat
    res              \* the HTTP response sent for each request

vars ==
    <<load, conversationId, nextConv, pc, query, message, model, chatCalls,
      created, wsOpened, readyState, sent, response, promise, received, startId,
      createdId, aiResponse, res>>

NoQuery == [type |-> "none", num |-> 0, str |-> <<>>]
Pending == [state |-> "pending", message |-> <<>>]
NoPromise == [state |-> "none", message |-> <<>>]
EmptyResponse == [text |-> <<>>, citations |-> <<>>]
NoResult == [state |-> "none", text |-> <<>>, citations |-> <<>>, message |-> <<>>]

\* The bodies res.json sends.
NoRes ==
    [status |-> 0, success |-> FALSE, error |-> "", message |-> <<>>,
     response |-> <<>>, citations |-> <<>>, responseLength |-> 0, citationCount |-> 0]
BadRequest ==
    [NoRes EXCEPT !.status = 400,
                  !.error = "Bad Request: 'query' field is missing or empty."]
\* Mutant: the failure of an unknown model selector is answered as a client
\* error.
ServerErrorByKind(msg) ==
    [NoRes EXCEPT !.status = IF msg = MsgModels THEN 400 ELSE 500,
                  !.error = IF msg = MsgModels THEN "Bad Request" ELSE "Internal Server Error",
                  !.message = msg]

\* Mutant: the 500 body hides the failure's message.
ServerErrorOpaque(msg) ==
    [NoRes EXCEPT !.status = 500, !.error = "Internal Server Error",
                  !.message = <<"Internal Server Error">>]

ServerError(msg) ==
    [NoRes EXCEPT !.status = 500, !.error = "Internal Server Error", !.message = msg]
Success(ai) ==
    LET responseText == Trim(ai.text)
        citations == ai.citations
    IN  [NoRes EXCEPT !.status = 200, !.success = TRUE,
                      !.response = responseText, !.citations = citations,
                      !.responseLength = Len(responseText),
                      !.citationCount = Len(citations)]

FramesReceived ==
    LET RECURSIVE Sum(_)
        Sum(n) == IF n = 0 THEN 0 ELSE Len(received[n]) + Sum(n - 1)
    IN  Sum(NumReq)

Init ==
    /\ load \in Loads
    /\ conversationId = Null
    /\ nextConv = 0
    /\ pc = [r \in Reqs |-> "idle"]
    /\ query = [r \in Reqs |-> NoQuery]
    /\ message = [r \in Reqs |-> <<>>]
    /\ model = [r \in Reqs |-> "none"]
    /\ chatCalls = [r \in Reqs |-> 0]
    /\ created = [r \in Reqs |-> 0]
    /\ wsOpened = [r \in Reqs |-> 0]
    /\ readyState = [r \in Reqs |-> "NONE"]
    /\ sent = [r \in Reqs |-> <<>>]
    /\ response = [r \in Reqs |-> EmptyResponse]
    /\ promise = [r \in Reqs |-> NoPromise]
    /\ received = [r \in Reqs |-> <<>>]
    /\ startId = [r \in Reqs |-> Null]
    /\ createdId = [r \in Reqs |-> Null]
    /\ aiResponse = [r \in Reqs |-> NoResult]
    /\ res = [r \in Reqs |-> NoRes]

\* Requests are numbered in the order they arrive.
Arrives(r) ==
    /\ r <= LoadReqs(load)
    /\ pc[r] = "idle"
    /\ IF r = 1 THEN TRUE ELSE pc[r - 1] # "idle"

(***************************************************************************)
(* The promise of one chat call settles once: resolve and reject are       *)
(* no-ops on a settled promise.                                            *)
(***************************************************************************)
\* Mutant: a rejection replaces an earlier settlement.
RejectOverrides(p, msg) == [state |-> "rejected", message |-> msg]

Resolve(p) ==
    IF p.state = "pending" THEN [state |-> "fulfilled", message |-> <<>>] ELSE p
Reject(p, msg) ==
    IF p.state = "pending" THEN [state |-> "rejected", message |-> msg] ELSE p

(***************************************************************************)
(* Copilot.createConversation                                              *)
(***************************************************************************)
\* Mutant: an identity already cached is kept (first write wins).
StoreIdIfUnset(cached, id) == IF cached = Null THEN id ELSE cached

\* this.conversationId = data.id
StoreId(cached, id) == id

\* Mutant: the failed call caches a placeholder identity.
KeepIdPlaceholder(cached) == ConvId(0)

\* The catch branch leaves this.conversationId as it was.
KeepId(cached) == cached

(***************************************************************************)
(* Copilot.chat                                                            *)
(***************************************************************************)
\* chat from the model check on: throw on an unknown selector, otherwise
\* construct the WebSocket and the response object and return the promise.
OpenExchange(r, m) ==
    IF UnknownModel(m)
    THEN /\ promise' = [promise EXCEPT ![r] = Reject(Pending, MsgModels)]
         /\ UNCHANGED <<wsOpened, readyState>>
    ELSE /\ promise' = [promise EXCEPT ![r] = Pending]
         /\ wsOpened' = [wsOpened EXCEPT ![r] = @ + 1]
         /\ readyState' = [readyState EXCEPT ![r] = "CONNECTING"]

\* Mutant: the creation call is not awaited, chat runs on at once.
CallChatNoAwait(r, msg, m) ==
    /\ message' = [message EXCEPT ![r] = msg]
    /\ model' = [model EXCEPT ![r] = m]
    /\ chatCalls' = [chatCalls EXCEPT ![r] = @ + 1]
    /\ startId' = [startId EXCEPT ![r] = conversationId]
    /\ created' = [created EXCEPT ![r] = IF conversationId = Null THEN @ + 1 ELSE @]
    /\ pc' = [pc EXCEPT ![r] = "awaiting"]
    /\ OpenExchange(r, m)

\* Mutant: chat creates a conversation on every call.
CallChatAlwaysCreates(r, msg, m) ==
    /\ message' = [message EXCEPT ![r] = msg]
    /\ model' = [model EXCEPT ![r] = m]
    /\ chatCalls' = [chatCalls EXCEPT ![r] = @ + 1]
    /\ startId' = [startId EXCEPT ![r] = conversationId]
    /\ created' = [created EXCEPT ![r] = @ + 1]
    /\ pc' = [pc EXCEPT ![r] = "creating"]
    /\ promise' = [promise EXCEPT ![r] = Pending]
    /\ UNCHANGED <<wsOpened, readyState>>

\* chat up to its first await: if (!this.conversationId) await
\* this.createConversation()
CallChat(r, msg, m) ==
    /\ message' = [message EXCEPT ![r] = msg]
    /\ model' = [model EXCEPT ![r] = m]
    /\ chatCalls' = [chatCalls EXCEPT ![r] = @ + 1]
    /\ startId' = [startId EXCEPT ![r] = conversationId]
    /\ IF conversationId = Null
       THEN /\ created' = [created EXCEPT ![r] = @ + 1]
            /\ pc' = [pc EXCEPT ![r] = "creating"]
            /\ promise' = [promise EXCEPT ![r] = Pending]
            /\ UNCHANGED <<wsOpened, readyState>>
       ELSE /\ pc' = [pc EXCEPT ![r] = "awaiting"]
            /\ OpenExchange(r, m)
            /\ UNCHANGED created

\* Mutant: a creation call that fails is issued once more.
CreateReturnRetries(r, ok) ==
    /\ pc[r] = "creating"
    /\ IF ok
       THEN /\ pc' = [pc EXCEPT ![r] = "awaiting"]
            /\ nextConv' = nextConv + 1
            /\ conversationId' = StoreId(conversationId, ConvId(nextConv + 1))
            /\ createdId' = [createdId EXCEPT ![r] = ConvId(nextConv + 1)]
            /\ OpenExchange(r, model[r])
            /\ UNCHANGED created
       ELSE IF created[r] < 2
       THEN /\ created' = [created EXCEPT ![r] = @ + 1]
            /\ UNCHANGED <<pc, nextConv, conversationId, createdId, promise,
                           wsOpened, readyState>>
       ELSE /\ pc' = [pc EXCEPT ![r] = "awaiting"]
            /\ conversationId' = KeepId(conversationId)
            /\ promise' = [promise EXCEPT ![r] = Reject(@, MsgCreateFailed)]
            /\ UNCHANGED <<nextConv, createdId, wsOpened, readyState, created>>
    /\ UNCHANGED <<load, query, message, model, chatCalls, sent, response, received,
                   startId, aiResponse, res>>

\* The creation call of request r returns: axios resolves with data.id, or
\* rejects (network error, non-success status); chat then runs on to the
\* model check and the WebSocket within the same turn.
CreateReturn(r, ok) ==
    /\ pc[r] = "creating"
    /\ pc' = [pc EXCEPT ![r] = "awaiting"]
    /\ IF ok
       THEN /\ nextConv' = nextConv + 1
            /\ conversationId' = StoreId(conversationId, ConvId(nextConv + 1))
            /\ createdId' = [createdId EXCEPT ![r] = ConvId(nextConv + 1)]
            /\ OpenExchange(r, model[r])
       ELSE /\ conversationId' = KeepId(conversationId)
            /\ promise' = [promise EXCEPT ![r] = Reject(@, MsgCreateFailed)]
            /\ UNCHANGED <<nextConv, createdId, wsOpened, readyState>>
    /\ UNCHANGED <<load, query, message, model, chatCalls, created, sent, response, received,
                   startId, aiResponse, res>>

\* The two frames ws.on('open') sends.  JSON.stringify drops a mode that is
\* no string (an inherited function) and keeps conversationId as it is read
\* from the adapter at this moment.
SetOptionsFrame ==
    [event |-> "setOptions", mode |-> Undefined, conversationId |-> Null, text |-> <<>>]
SendFrame(r) ==
    [event |-> "send",
     mode |-> IF model[r] \in DOMAIN Models THEN Models[model[r]] ELSE Undefined,
     conversationId |-> conversationId,
     text |-> message[r]]

\* Mutant: the send frame goes out before the setOptions frame.
WsOpenSendFirst(r) ==
    /\ readyState[r] = "CONNECTING"
    /\ readyState' = [readyState EXCEPT ![r] = "OPEN"]
    /\ sent' = [sent EXCEPT ![r] = @ \o <<SendFrame(r), SetOptionsFrame>>]
    /\ UNCHANGED <<load, conversationId, nextConv, pc, query, message, model, chatCalls, created,
                   wsOpened, response, promise, received, startId, createdId,
                   aiResponse, res>>

WsOpen(r) ==
    /\ readyState[r] = "CONNECTING"
    /\ readyState' = [readyState EXCEPT ![r] = "OPEN"]
    /\ sent' = [sent EXCEPT ![r] = @ \o <<SetOptionsFrame, SendFrame(r)>>]
    /\ UNCHANGED <<load, conversationId, nextConv, pc, query, message, model, chatCalls, created,
                   wsOpened, response, promise, received, startId, createdId,
                   aiResponse, res>>

\* Mutant: a default case appends the text of frames with any other tag.
AccumulateByDefault(resp, f) ==
    CASE f.event = "appendText" ->
            [resp EXCEPT !.text = @ \o OrElse(f.text, <<>>)]
      [] f.event = "citation" ->
            [resp EXCEPT !.citations =
                Append(@, [title |-> f.title, icon |-> f.iconUrl, url |-> f.url])]
      [] f.event \in {"done", "error", "malformed"} -> resp
      [] OTHER -> [resp EXCEPT !.text = @ \o OrElse(f.text, <<"?">>)]

\* The switch of ws.on('message') on the response object.
Accumulate(resp, f) ==
    CASE f.event = "appendText" ->
            [resp EXCEPT !.text = @ \o OrElse(f.text, <<>>)]
      [] f.event = "citation" ->
            [resp EXCEPT !.citations =
                Append(@, [title |-> f.title, icon |-> f.iconUrl, url |-> f.url])]
      [] OTHER -> resp

\* Mutant: the citation case lacks its break and falls through to done.
SettleFallThrough(p, f) ==
    CASE f.event \in {"citation", "done"} -> Resolve(p)
      [] f.event = "error" -> Reject(p, OrElse(f.message, MsgUnknown))
      [] f.event = "malformed" -> Reject(p, MsgProcess)
      [] OTHER -> p

\* Mutant: the error case is missing, so error frames are ignored.
SettleIgnoresError(p, f) ==
    CASE f.event = "done" -> Resolve(p)
      [] f.event = "malformed" -> Reject(p, MsgProcess)
      [] OTHER -> p

\* Mutant: the catch of the message handler swallows the parse error.
SettleSkipsMalformed(p, f) ==
    CASE f.event = "done" -> Resolve(p)
      [] f.event = "error" -> Reject(p, OrElse(f.message, MsgUnknown))
      [] OTHER -> p

\* What ws.on('message') does to the promise.
Settle(p, f) ==
    CASE f.event = "done" -> Resolve(p)
      [] f.event = "error" -> Reject(p, OrElse(f.message, MsgUnknown))
      [] f.event = "malformed" -> Reject(p, MsgProcess)
      [] OTHER -> p

\* Mutant: only the done case closes the connection.
AfterCloseDoneOnly(state, f) ==
    IF f.event = "done" /\ state = "OPEN" THEN "CLOSING" ELSE state

\* ws.close() in the done and error cases.
AfterClose(state, f) ==
    IF f.event \in {"done", "error"} /\ state = "OPEN" THEN "CLOSING" ELSE state

\* Mutant: the response object is one field of the shared adapter, so a
\* frame of any exchange accumulates into every result.
WsMessageShared(r, f) ==
    /\ readyState[r] \in {"OPEN", "CLOSING"}
    /\ FramesReceived < LoadFrames(load)
    /\ received' = [received EXCEPT ![r] = Append(@, f)]
    /\ response' = [q \in Reqs |-> Accumulate(response[q], f)]
    /\ promise' = [promise EXCEPT ![r] = Settle(@, f)]
    /\ readyState' = [readyState EXCEPT ![r] = AfterClose(@, f)]
    /\ UNCHANGED <<load, conversationId, nextConv, pc, query, message, model, chatCalls, created,
                   wsOpened, sent, startId, createdId, aiResponse, res>>

WsMessage(r, f) ==
    /\ readyState[r] \in {"OPEN", "CLOSING"}
    /\ FramesReceived < LoadFrames(load)
    /\ received' = [received EXCEPT ![r] = Append(@, f)]
    /\ response' = [response EXCEPT ![r] = Accumulate(@, f)]
    /\ promise' = [promise EXCEPT ![r] = Settle(@, f)]
    /\ readyState' = [readyState EXCEPT ![r] = AfterClose(@, f)]
    /\ UNCHANGED <<load, conversationId, nextConv, pc, query, message, model, chatCalls, created,
                   wsOpened, sent, startId, createdId, aiResponse, res>>

\* ws.on('error'); the socket then closes.
WsError(r, m) ==
    /\ ~LoadSilent(load)
    /\ readyState[r] \in {"CONNECTING", "OPEN", "CLOSING"}
    /\ promise' = [promise EXCEPT ![r] = Reject(@, MsgWebSocket(m))]
    /\ readyState' = [readyState EXCEPT ![r] = "CLOSED"]
    /\ UNCHANGED <<load, conversationId, nextConv, pc, query, message, model, chatCalls, created,
                   wsOpened, sent, response, received, startId, createdId,
                   aiResponse, res>>

\* Mutant: the close listener fails an exchange that is still pending.
WsCloseRejects(r) ==
    /\ ~LoadSilent(load)
    /\ readyState[r] \in {"OPEN", "CLOSING"}
    /\ readyState' = [readyState EXCEPT ![r] = "CLOSED"]
    /\ promise' = [promise EXCEPT ![r] = Reject(@, <<"closed">>)]
    /\ UNCHANGED <<load, conversationId, nextConv, pc, query, message, model, chatCalls, created,
                   wsOpened, sent, response, received, startId,
                   createdId, aiResponse, res>>

\* The 'close' event: no listener (part_000) or an empty one (index.js).
WsClose(r) ==
    /\ ~LoadSilent(load)
    /\ readyState[r] \in {"OPEN", "CLOSING"}
    /\ readyState' = [readyState EXCEPT ![r] = "CLOSED"]
    /\ UNCHANGED <<load, conversationId, nextConv, pc, query, message, model, chatCalls, created,
                   wsOpened, sent, response, promise, received, startId,
                   createdId, aiResponse, res>>

\* What await copilot.chat(...) yields once the promise has settled: the
\* response object itself, read as it is when the caller resumes.
Awaited(r) ==
    IF promise[r].state = "fulfilled"
    THEN [state |-> "fulfilled", text |-> response[r].text,
          citations |-> response[r].citations, message |-> <<>>]
    ELSE [state |-> "rejected", text |-> <<>>, citations |-> <<>>,
          message |-> promise[r].message]

(***************************************************************************)
(* app.post('/api/ai')                                                     *)
(***************************************************************************)
Request(r, q, customModel, language) ==
    /\ Arrives(r)
    /\ <<q, customModel, language>> \in LoadInputs(load)
    /\ query' = [query EXCEPT ![r] = q]
    /\ IF InvalidQuery(q)
       THEN /\ res' = [res EXCEPT ![r] = BadRequest]
            /\ pc' = [pc EXCEPT ![r] = "responded"]
            /\ UNCHANGED <<message, model, chatCalls, startId, created, promise, wsOpened,
                           readyState>>
       ELSE IF PersonaThrows(customModel)
       THEN /\ res' = [res EXCEPT ![r] = ServerError(MsgTrim)]
            /\ pc' = [pc EXCEPT ![r] = "responded"]
            /\ UNCHANGED <<message, model, chatCalls, startId, created, promise, wsOpened,
                           readyState>>
       ELSE /\ CallChat(r, FinalPrompt(q, customModel, language), "default")
            /\ UNCHANGED res
    /\ UNCHANGED <<load, conversationId, nextConv, sent, response, received, createdId,
                   aiResponse>>

\* The handler resumes after await copilot.chat(finalPrompt).
HandlerResume(r) ==
    /\ pc[r] = "awaiting"
    /\ query[r] # NoQuery
    /\ promise[r].state \in {"fulfilled", "rejected"}
    /\ aiResponse' = [aiResponse EXCEPT ![r] = Awaited(r)]
    /\ res' = [res EXCEPT ![r] =
                  IF promise[r].state = "fulfilled"
                  THEN Success(Awaited(r))
                  ELSE ServerError(Awaited(r).message)]
    /\ pc' = [pc EXCEPT ![r] = "responded"]
    /\ UNCHANGED <<load, conversationId, nextConv, query, message, model, chatCalls, created,
                   wsOpened, readyState, sent, response, promise, received,
                   startId, createdId>>

Next ==
    \E r \in Reqs :
        \/ \E q \in Queries, c \in Personas, l \in Languages : Request(r, q, c, l)
        \/ \E ok \in BOOLEAN : CreateReturn(r, ok)
        \/ WsOpen(r)
        \/ \E f \in Frames : WsMessage(r, f)
        \/ \E m \in TransportMessages : WsError(r, m)
        \/ WsClose(r)
        \/ HandlerResume(r)

Spec == Init /\ [][Next]_vars

(***************************************************************************)
(* The adapter driven directly: a caller of chat(message, {model}).        *)
(***************************************************************************)
ChatCall(r, msg, m) ==
    /\ Arrives(r)
    /\ CallChat(r, msg, m)
    /\ UNCHANGED <<load, conversationId, nextConv, query, sent, response, received,
                   createdId, aiResponse, res>>

CallerResume(r) ==
    /\ pc[r] = "awaiting"
    /\ query[r] = NoQuery
    /\ promise[r].state \in {"fulfilled", "rejected"}
    /\ aiResponse' = [aiResponse EXCEPT ![r] = Awaited(r)]
    /\ pc' = [pc EXCEPT ![r] = "returned"]
    /\ UNCHANGED <<load, conversationId, nextConv, query, message, model, chatCalls, created,
                   wsOpened, readyState, sent, response, promise, received,
                   startId, createdId, res>>

NextChat ==
    \E r \in Reqs :
        \/ \E msg \in Messages, m \in Selectors : ChatCall(r, msg, m)
        \/ \E ok \in BOOLEAN : CreateReturn(r, ok)
        \/ WsOpen(r)
        \/ \E f \in Frames : WsMessage(r, f)
        \/ \E m \in TransportMessages : WsError(r, m)
        \/ WsClose(r)
        \/ CallerResume(r)

InitChat == Init /\ load \in {"solo", "pair"}

SpecChat == InitChat /\ [][NextChat]_vars

(***************************************************************************)
(* The handler's try/catch around a chat call of any selector: what the    *)
(* catch block of app.post('/api/ai') makes of each error chat can throw.  *)
(***************************************************************************)
HandlerCatch(r) ==
    /\ pc[r] = "awaiting"
    /\ query[r] = NoQuery
    /\ promise[r].state \in {"fulfilled", "rejected"}
    /\ aiResponse' = [aiResponse EXCEPT ![r] = Awaited(r)]
    /\ res' = [res EXCEPT ![r] =
                  IF promise[r].state = "fulfilled"
                  THEN Success(Awaited(r))
                  ELSE ServerError(Awaited(r).message)]
    /\ pc' = [pc EXCEPT ![r] = "responded"]
    /\ UNCHANGED <<load, conversationId, nextConv, query, message, model, chatCalls, created,
                   wsOpened, readyState, sent, response, promise, received,
                   startId, createdId>>

NextCatch ==
    \E r \in Reqs :
        \/ \E q \in Queries, c \in Personas, l \in Languages : Request(r, q, c, l)
        \/ \E msg \in Messages, m \in Selectors : ChatCall(r, msg, m)
        \/ \E ok \in BOOLEAN : CreateReturn(r, ok)
        \/ WsOpen(r)
        \/ \E f \in Frames : WsMessage(r, f)
        \/ \E m \in TransportMessages : WsError(r, m)
        \/ WsClose(r)
        \/ HandlerResume(r)
        \/ HandlerCatch(r)

InitCatch == Init /\ load = "solo"

SpecCatch == InitCatch /\ [][NextCatch]_vars

(***************************************************************************)
(* Vocabulary of the properties: what the log of received frames says.     *)
(***************************************************************************)
ValidNames == {"default", "think-deeper", "gpt-5"}
Arrived(r) == pc[r] # "idle"
Responded(r) == pc[r] = "responded"

\* A query that is missing, not a string, or made of white space only.
BlankQuery(q) ==
    \/ q.type # "string"
    \/ \A i \in 1..Len(q.str) : q.str[i] = " "

\* Index of the first frame of log with an event in evs, 0 if there is none.
FirstOf(log, evs) ==
    IF \E i \in 1..Len(log) : log[i].event \in evs
    THEN CHOOSE i \in 1..Len(log) :
            /\ log[i].event \in evs
            /\ \A j \in 1..(i - 1) : log[j].event \notin evs
    ELSE 0

\* The fragment an appendText frame carries ("" when it carries none).
Fragment(f) == IF f.text.present THEN f.text.val ELSE <<>>

\* Concatenation, in arrival order, of the fragments among log[1..n].
RECURSIVE TextOf(_, _)
TextOf(log, n) ==
    IF n = 0 THEN <<>>
    ELSE TextOf(log, n - 1)
            \o (IF log[n].event = "appendText" THEN Fragment(log[n]) ELSE <<>>)

\* The citation frames among log[1..n], in arrival order.
RECURSIVE CitationsOf(_, _)
CitationsOf(log, n) ==
    IF n = 0 THEN <<>>
    ELSE CitationsOf(log, n - 1)
            \o (IF log[n].event = "citation"
                THEN <<[title |-> log[n].title, icon |-> log[n].iconUrl,
                        url |-> log[n].url]>>
                ELSE <<>>)

\* The message of an error frame as the caller is to see it.
BackendMessage(f) ==
    IF f.message.present /\ f.message.val # <<>> THEN f.message.val ELSE MsgUnknown

(***************************************************************************)
(* C1.  A request whose query is missing, not a string or blank is         *)
(* answered 400 with success = false, and handling it makes no backend     *)
(* call: no creation call, no WebSocket, no chat call, and the cached      *)
(* conversation identity is left as it was.                                *)
(***************************************************************************)
C1_Rejected ==
    \A r \in Reqs :
        (Arrived(r) /\ query[r] # NoQuery /\ BlankQuery(query[r])) =>
            /\ Responded(r)
            /\ res[r].status = 400
            /\ res[r].success = FALSE
            /\ chatCalls[r] = 0
            /\ created[r] = 0
            /\ wsOpened[r] = 0

C1_Step ==
    \A r \in Reqs :
        (~Arrived(r) /\ Arrived(r)' /\ BlankQuery(query'[r])) =>
            /\ conversationId' = conversationId
            /\ created' = created
            /\ wsOpened' = wsOpened

C1_BlankQueryMakesNoBackendCall == [](C1_Rejected) /\ [][C1_Step]_vars

\* A white-space query answered 400 while an identity is cached.
C1_Witness ==
    \E r \in Reqs :
        /\ query[r] = QString(<<" ">>)
        /\ res[r].status = 400
        /\ conversationId # Null

(***************************************************************************)
(* C2.  The result chat delivers has text equal to the concatenation, in   *)
(* arrival order, of exactly the appendText fragments received before the  *)
(* done frame, and citations equal to the citation frames received before  *)
(* done.  (Violated: the resolved value is the response object itself,     *)
(* which frames arriving after done keep extending until the caller        *)
(* resumes.)                                                               *)
(***************************************************************************)
C2_DeliveredIsWhatPrecededDone ==
    \A r \in Reqs :
        aiResponse[r].state = "fulfilled" =>
            LET d == FirstOf(received[r], {"done"})
            IN  /\ d > 0
                /\ aiResponse[r].text = TextOf(received[r], d - 1)
                /\ aiResponse[r].citations = CitationsOf(received[r], d - 1)

(***************************************************************************)
(* C3.  A 200 is sent for a request only if a done frame was received on   *)
(* its exchange and settled it: never while the exchange is pending, and   *)
(* never after it failed (an error or malformed frame before the first     *)
(* done).                                                                  *)
(***************************************************************************)
C3_SuccessOnlyAfterDone ==
    \A r \in Reqs :
        res[r].status = 200 =>
            LET d == FirstOf(received[r], {"done"})
                t == FirstOf(received[r], {"done", "error", "malformed"})
            IN  /\ d > 0
                /\ t = d
                /\ promise[r].state = "fulfilled"
                /\ res[r].success = TRUE

\* A 200 sent for an exchange that streamed text and then done.
C3_Witness ==
    \E r \in Reqs :
        /\ res[r].status = 200
        /\ Len(received[r]) >= 2
        /\ received[r][1].event = "appendText"

(***************************************************************************)
(* C4.  For every request with a non-blank query the handler calls chat    *)
(* exactly once (at most one WebSocket), and on success the response field *)
(* is the accumulated text with leading and trailing white space removed   *)
(* and the citations are the accumulated list.  (Violated: a persona label *)
(* that is no string makes customModel.trim() throw before chat is         *)
(* called.)                                                                *)
(***************************************************************************)
Spaces(n) == [i \in 1..n |-> " "]
IsTrimOf(t, s) ==
    /\ t = <<>> \/ (t[1] # " " /\ t[Len(t)] # " ")
    /\ \E i, j \in 0..Len(s) : s = Spaces(i) \o t \o Spaces(j)

C4_OneChatCallResultTrimmed ==
    \A r \in Reqs :
        (Arrived(r) /\ query[r] # NoQuery /\ ~BlankQuery(query[r])) =>
            /\ chatCalls[r] = 1
            /\ wsOpened[r] <= 1
            /\ res[r].status = 200 =>
                /\ IsTrimOf(res[r].response, aiResponse[r].text)
                /\ res[r].citations = aiResponse[r].citations

(***************************************************************************)
(* C5.  When the first settling frame of an exchange is an error frame,    *)
(* the exchange fails with the backend's message (the generic message when *)
(* the frame has none), the handler answers 500 with that message, and no  *)
(* 200 is sent whatever frames follow.                                     *)
(***************************************************************************)
C5_ErrorFrameFailsExchange ==
    \A r \in Reqs :
        LET t == FirstOf(received[r], {"done", "error", "malformed"})
        IN  (t > 0 /\ received[r][t].event = "error") =>
                /\ promise[r].state = "rejected"
                /\ promise[r].message = BackendMessage(received[r][t])
                /\ res[r].status # 200
                /\ Responded(r) =>
                    /\ res[r].status = 500
                    /\ res[r].success = FALSE
                    /\ res[r].message = BackendMessage(received[r][t])

\* An error frame with a message, a done frame after it, and the 500 sent.
C5_Witness ==
    \E r \in Reqs :
        /\ Len(received[r]) >= 2
        /\ received[r][1] = Frame("error", Absent, 0, Some(<<"b", "a", "d">>))
        /\ \E i \in 2..Len(received[r]) : received[r][i].event = "done"
        /\ res[r].status = 500
        /\ res[r].message = <<"b", "a", "d">>

(***************************************************************************)
(* C6.  For every model selector outside {default, think-deeper, gpt-5},   *)
(* chat fails with the error listing the valid names and opens no          *)
(* WebSocket.  (Violated: a selector naming a property that this.models    *)
(* inherits, such as "constructor", passes the check.)                     *)
(***************************************************************************)
C6_UnknownSelectorOpensNothing ==
    \A r \in Reqs :
        (chatCalls[r] > 0 /\ model[r] \notin ValidNames) =>
            /\ wsOpened[r] = 0
            /\ (pc[r] # "creating" /\ ~(created[r] = 1 /\ createdId[r] = Null)) =>
                    promise[r] = [state |-> "rejected", message |-> MsgModels]

(***************************************************************************)
(* C7.  As claimed: a chat call that starts once an identity is cached     *)
(* issues no creation call and its send frame carries that same identity.  *)
(* (Violated: a creation call still in flight replaces the identity before *)
(* the later call's connection opens.)                                     *)
(***************************************************************************)
C7_SendCarriesIdentityCachedAtStart ==
    \A r \in Reqs :
        (startId[r] # Null /\ Len(sent[r]) >= 2) =>
            /\ created[r] = 0
            /\ sent[r][2].conversationId = startId[r]

(***************************************************************************)
(* C7, amended.  A chat call that starts once an identity is cached issues *)
(* no creation call, and its send frame carries the identity cached at the *)
(* moment its connection opens, which is one a successful creation call    *)
(* returned.  The identity is never cleared, and is replaced only by the   *)
(* return of a creation call that was in flight - never by the outcome of  *)
(* an exchange.                                                            *)
(***************************************************************************)
Written == {createdId[q] : q \in Reqs} \ {Null}

C7_Reuse ==
    \A r \in Reqs :
        /\ startId[r] # Null => created[r] = 0
        /\ Len(sent[r]) >= 2 => sent[r][2].conversationId \in Written

C7_Step ==
    /\ conversationId # Null => conversationId' # Null
    /\ conversationId' # conversationId =>
            \E q \in Reqs :
                /\ pc[q] = "creating"
                /\ createdId[q] = Null
                /\ createdId'[q] = conversationId'
    /\ \A r \in Reqs :
            sent'[r] # sent[r] =>
                sent'[r][Len(sent'[r])].conversationId = conversationId

C7_IdentityReusedNeverCleared == [](C7_Reuse) /\ [][C7_Step]_vars

\* A call that found an identity cached and sent another one.
C7_Witness ==
    \E r \in Reqs :
        /\ startId[r] # Null
        /\ Len(sent[r]) >= 2
        /\ sent[r][2].conversationId # startId[r]

(***************************************************************************)
(* C8.  Two chat calls that both find no identity cached both issue a      *)
(* creation call, and the cached identity is the one written by the        *)
(* creation call that returned last.                                       *)
(***************************************************************************)
\* Identities are numbered in the order their creation calls return.
LastWritten ==
    IF Written = {} THEN Null
    ELSE CHOOSE w \in Written : \A v \in Written : v[2] <= w[2]

C8_LastWriteWins ==
    /\ \A r \in Reqs : (chatCalls[r] > 0 /\ startId[r] = Null) => created[r] = 1
    /\ conversationId = LastWritten

\* Request 1 called first, its creation call returned last, its identity
\* is the one cached.
C8_Witness ==
    /\ startId[1] = Null /\ startId[2] = Null
    /\ createdId[2] = ConvId(1)
    /\ createdId[1] = ConvId(2)
    /\ conversationId = ConvId(2)

(***************************************************************************)
(* C9.  With no identity cached chat makes exactly one creation call; if   *)
(* it fails, chat fails with the creation error, the cached identity is    *)
(* left as it was, no WebSocket is opened and the handler answers 500.     *)
(***************************************************************************)
CreationFailed(r) ==
    created[r] = 1 /\ pc[r] \notin {"idle", "creating"} /\ createdId[r] = Null

C9_Failed ==
    \A r \in Reqs :
        /\ (chatCalls[r] > 0 /\ startId[r] = Null) => created[r] = 1
        /\ CreationFailed(r) =>
            /\ wsOpened[r] = 0
            /\ promise[r] = [state |-> "rejected", message |-> MsgCreateFailed]
            /\ Responded(r) =>
                /\ res[r].status = 500
                /\ res[r].message = MsgCreateFailed

C9_Step ==
    \A r \in Reqs :
        (pc[r] = "creating" /\ pc'[r] # "creating" /\ createdId'[r] = Null) =>
            conversationId' = conversationId

C9_CreationFailureCachesNothing == [](C9_Failed) /\ [][C9_Step]_vars

\* A failed creation call answered 500 with the identity still unset.
C9_Witness ==
    \E r \in Reqs :
        /\ CreationFailed(r)
        /\ res[r].status = 500
        /\ conversationId = Null

(***************************************************************************)
(* C10.  Every failure of the adapter is answered 500 with success = false *)
(* and the failure's own message, whatever its kind.                       *)
(***************************************************************************)
FailureMessages(r) ==
    LET t == FirstOf(received[r], {"done", "error", "malformed"})
    IN  IF CreationFailed(r) THEN {MsgCreateFailed}
        ELSE IF wsOpened[r] = 0 THEN {MsgModels}
        ELSE IF t > 0 /\ received[r][t].event = "error"
             THEN {BackendMessage(received[r][t])}
        ELSE IF t > 0 /\ received[r][t].event = "malformed" THEN {MsgProcess}
        ELSE {MsgWebSocket(m) : m \in TransportMessages}

C10_FailureAnswered500 ==
    \A r \in Reqs :
        (Responded(r) /\ promise[r].state = "rejected") =>
            /\ res[r].status = 500
            /\ res[r].success = FALSE
            /\ res[r].error = "Internal Server Error"
            /\ res[r].message = promise[r].message
            /\ res[r].message \in FailureMessages(r)

\* A creation failure and a transport failure, both answered 500.
C10_Witness ==
    \E r1, r2 \in Reqs :
        /\ res[r1].status = 500 /\ res[r1].message = MsgCreateFailed
        /\ res[r2].status = 500 /\ res[r2].message = MsgWebSocket(<<"E">>)

(***************************************************************************)
(* C11 as stated: a chat call that fails on an unknown model selector is   *)
(* answered with a client error (a 4xx status), while the backend and      *)
(* transport failures are answered with a server error; the only client    *)
(* errors are those of an invalid request and of an unknown selector.      *)
(***************************************************************************)
ClientError(r) == res[r].status \in 400..499
FailedOnModel(r) ==
    /\ Responded(r)
    /\ promise[r] = [state |-> "rejected", message |-> MsgModels]

Failed(r) == promise[r].state = "rejected"

C12_AtMostOnce ==
    \A r \in Reqs :
        /\ chatCalls[r] <= 1
        /\ created[r] <= 1
        /\ wsOpened[r] <= 1
        /\ CreationFailed(r) => wsOpened[r] = 0
        /\ Failed(r) /\ Responded(r) =>
              res[r].status = 500 /\ ~res[r].success

C12_Step ==
    \A r \in Reqs :
        /\ Failed(r) =>
              /\ Failed(r)'
              /\ chatCalls'[r] = chatCalls[r]
              /\ created'[r] = created[r]
              /\ wsOpened'[r] = wsOpened[r]
              /\ sent'[r] = sent[r]
        /\ res[r] # NoRes => res'[r] = res[r]

C12_NothingIsRetried == [](C12_AtMostOnce) /\ [][C12_Step]_vars

C12_Witness ==
    \E r \in Reqs :
        /\ CreationFailed(r)
        /\ Responded(r)
        /\ created[r] = 1
        /\ wsOpened[r] = 0
        /\ res[r] = ServerError(MsgCreateFailed)

(***************************************************************************)
(* C13: an exchange sends nothing before its connection's open event and   *)
(* exactly two frames at it: first the setOptions frame, then the send     *)
(* frame with a conversation identity, the mode of the selected model and  *)
(* the message text (the prompt, which ends with the query); the frames    *)
(* sent change in no other step, so nothing is sent afterwards.            *)
(***************************************************************************)
IsSuffix(t, s) ==
    /\ Len(t) <= Len(s)
    /\ SubSeq(s, Len(s) - Len(t) + 1, Len(s)) = t

C13_Sent ==
    \A r \in Reqs :
        /\ readyState[r] \in {"NONE", "CONNECTING"} => sent[r] = <<>>
        /\ readyState[r] \in {"OPEN", "CLOSING"} => Len(sent[r]) = 2
        /\ Len(sent[r]) \in {0, 2}
        /\ Len(sent[r]) = 2 =>
              /\ sent[r][1].event = "setOptions"
              /\ sent[r][2].event = "send"
              /\ sent[r][2].conversationId # Null
              /\ sent[r][2].mode = Models[model[r]]
              /\ sent[r][2].text = message[r]
              /\ IsSuffix(query[r].str, sent[r][2].text)

C13_Step ==
    \A r \in Reqs :
        sent'[r] # sent[r] =>
            /\ sent[r] = <<>>
            /\ readyState[r] = "CONNECTING"
            /\ readyState'[r] = "OPEN"

C13_TwoFramesAtOpen == [](C13_Sent) /\ [][C13_Step]_vars

C13_Witness ==
    \E r \in Reqs :
        /\ Len(sent[r]) = 2
        /\ sent[r][2].mode = "chat"
        /\ Len(received[r]) = 3
        /\ readyState[r] = "CLOSED"

(***************************************************************************)
(* C14: the step that processes a done frame or an error frame also asks   *)
(* for the connection to be closed, so a connection on which a terminal    *)
(* event has been processed is never open, and an exchange settled by a    *)
(* terminal event has its connection closing or closed.                    *)
(***************************************************************************)
Terminal == {"done", "error"}

C14_Closed ==
    \A r \in Reqs :
        FirstOf(received[r], Terminal) # 0 => readyState[r] \in {"CLOSING", "CLOSED"}

C14_Step ==
    \A r \in Reqs :
        /\ Len(received'[r]) = Len(received[r]) + 1
        /\ received'[r][Len(received'[r])].event \in Terminal
        => /\ readyState'[r] \in {"CLOSING", "CLOSED"}
           /\ promise'[r].state \in {"fulfilled", "rejected"}

C14_TerminalEventClosesConnection == [](C14_Closed) /\ [][C14_Step]_vars

C14_Witness ==
    \E r \in Reqs :
        /\ received[r] = <<Frame("error", Absent, 0, Absent)>>
        /\ promise[r] = [state |-> "rejected", message |-> MsgUnknown]
        /\ readyState[r] = "CLOSING"

(***************************************************************************)
(* C15: when the first settling frame of an exchange is one that cannot be *)
(* parsed, the exchange is rejected with the processing failure, no later  *)
(* frame on the connection changes that outcome, and the handler answers   *)
(* 500 with that failure's message, never 200.                             *)
(***************************************************************************)
MalformedFirst(r) ==
    LET t == FirstOf(received[r], {"done", "error", "malformed"})
    IN  t > 0 /\ received[r][t].event = "malformed"

C15_Failed ==
    \A r \in Reqs :
        MalformedFirst(r) =>
            /\ promise[r] = [state |-> "rejected", message |-> MsgProcess]
            /\ aiResponse[r].state # "fulfilled"
            /\ res[r].status \in {0, 500}
            /\ Responded(r) =>
                  /\ res[r].status = 500
                  /\ ~res[r].success
                  /\ res[r].message = MsgProcess
                  /\ res[r].response = <<>>
                  /\ res[r].citations = <<>>

C15_Step ==
    \A r \in Reqs :
        MalformedFirst(r) =>
            /\ promise'[r] = promise[r]
            /\ res[r] # NoRes => res'[r] = res[r]

C15_MalformedFrameFailsExchange == [](C15_Failed) /\ [][C15_Step]_vars

\* A malformed frame, then a fragment and a done frame, and the 500 sent.
C15_Witness ==
    \E r \in Reqs :
        /\ received[r] = <<MalformedFrame, Frame("appendText", Some(<<"a">>), 0, Absent),
                           DoneFrame>>
        /\ response[r].text = <<"a">>
        /\ res[r].status = 500
        /\ res[r].message = MsgProcess

(***************************************************************************)
(* C16: there is no timeout.  An exchange is pending exactly as long as no *)
(* done, error or malformed frame has been received and no connection      *)
(* error has occurred; it is fulfilled only by a done frame, and a         *)
(* connection error on a pending exchange rejects it with the WebSocket    *)
(* error message.  The close event settles nothing: an exchange whose      *)
(* connection has closed while it was pending stays pending for ever, and  *)
(* its request is never answered.                                          *)
(***************************************************************************)
Settling == {"done", "error", "malformed"}
IsPending(r) == promise[r].state = "pending"
TransportFailures ==
    {[state |-> "rejected", message |-> MsgWebSocket(m)] : m \in TransportMessages}
Abandoned(r) == readyState[r] = "CLOSED" /\ IsPending(r)

C16_Pending ==
    \A r \in Reqs :
        wsOpened[r] = 1 =>
            /\ IsPending(r) => FirstOf(received[r], Settling) = 0
            /\ FirstOf(received[r], Settling) = 0 =>
                  IsPending(r) \/ promise[r] \in TransportFailures
            /\ promise[r].state = "fulfilled" =>
                  received[r][FirstOf(received[r], Settling)].event = "done"
            /\ IsPending(r) => res[r] = NoRes /\ pc[r] = "awaiting"

C16_Step ==
    \A r \in Reqs :
        /\ wsOpened[r] = 1 /\ IsPending(r) /\ ~IsPending(r)' =>
              \/ /\ Len(received'[r]) = Len(received[r]) + 1
                 /\ received'[r][Len(received'[r])].event \in Settling
              \/ /\ received'[r] = received[r]
                 /\ promise'[r] \in TransportFailures
                 /\ readyState'[r] = "CLOSED"
        /\ Abandoned(r) => Abandoned(r)' /\ res'[r] = NoRes /\ pc'[r] = pc[r]

C16_PendingUntilSettlingEvent == [](C16_Pending) /\ [][C16_Step]_vars

\* A connection that closed after a fragment, with no terminal event.
C16_Witness ==
    \E r \in Reqs :
        /\ Abandoned(r)
        /\ received[r] = <<Frame("appendText", Some(<<"a">>), 0, Absent)>>
        /\ query[r] = QString(<<"a">>)
        /\ res[r] = NoRes

(***************************************************************************)
(* C17: a step that receives a well-formed frame whose event is none of    *)
(* appendText, citation, done and error leaves the accumulated text, the   *)
(* citations, the promise, the connection, the frames sent and the cached  *)
(* identity as they were, for every exchange.                              *)
(***************************************************************************)
KnownEvents == {"appendText", "citation", "done", "error"}
ReceivesOther(r) ==
    /\ Len(received'[r]) = Len(received[r]) + 1
    /\ received'[r][Len(received'[r])].event \notin KnownEvents \cup {"malformed"}

C17_Step ==
    \A r \in Reqs :
        ReceivesOther(r) =>
            /\ response' = response
            /\ promise' = promise
            /\ readyState' = readyState
            /\ sent' = sent
            /\ conversationId' = conversationId
            /\ res' = res

C17_UnknownEventIgnored == [][C17_Step]_vars

\* A frame with another tag between a fragment and done: the text delivered
\* is the fragment.
C17_Witness ==
    \E r \in Reqs :
        /\ received[r] = <<Frame("appendText", Some(<<"a">>), 0, Absent), OtherFrame,
                           DoneFrame>>
        /\ res[r].status = 200
        /\ res[r].response = <<"a">>

(***************************************************************************)
(* C18: every request is answered at most once, with status 400, 200 or    *)
(* 500.  The promise of an exchange settles at most once: once fulfilled   *)
(* or rejected it keeps its state and its message whatever frame, error or *)
(* close event follows; the status of the response is the one that first   *)
(* settlement decides (200 when fulfilled, 500 when rejected), and a       *)
(* response that has been sent is never replaced.                          *)
(***************************************************************************)
Settled(r) == promise[r].state \in {"fulfilled", "rejected"}

C18_Answered ==
    \A r \in Reqs :
        /\ res[r].status \in {0, 400, 200, 500}
        /\ Responded(r) <=> res[r] # NoRes
        /\ res[r].status = 400 => promise[r] = NoPromise
        /\ res[r].status = 200 => promise[r].state = "fulfilled"
        /\ res[r].status = 500 /\ chatCalls[r] = 1 => promise[r].state = "rejected"

C18_Step ==
    \A r \in Reqs :
        /\ Settled(r) => promise'[r] = promise[r]
        /\ res[r] # NoRes => res'[r] = res[r] /\ pc'[r] = pc[r]

C18_AtMostOneResponse == [](C18_Answered) /\ [][C18_Step]_vars

\* A done frame followed by an error frame: the answer is the 200.
C18_Witness ==
    \E r \in Reqs :
        /\ Len(received[r]) = 2
        /\ received[r][1] = DoneFrame
        /\ received[r][2].event = "error"
        /\ readyState[r] = "CLOSED"
        /\ promise[r].state = "fulfilled"
        /\ res[r].status = 200

(***************************************************************************)
(* C19: given that a creation call that succeeds returns an identifier, in *)
(* every reachable state, concurrent requests included, a WebSocket is     *)
(* constructed only when the cached identity is set, the send frame is     *)
(* sent only when it is set, and the identity each send frame carries is   *)
(* one a successful creation call returned, never null.                    *)
(***************************************************************************)
C19_Set ==
    \A r \in Reqs :
        /\ wsOpened[r] > 0 => conversationId # Null /\ conversationId \in Written
        /\ sent[r] # <<>> =>
              /\ sent[r][2].conversationId # Null
              /\ sent[r][2].conversationId \in Written
        /\ createdId[r] # Null => createdId[r] \in {ConvId(n) : n \in 1..nextConv}

C19_Step ==
    \A r \in Reqs :
        /\ wsOpened'[r] > wsOpened[r] =>
              conversationId' # Null /\ conversationId' \in Written'
        /\ sent'[r] # sent[r] =>
              /\ conversationId # Null
              /\ sent'[r][Len(sent'[r])].conversationId = conversationId

C19_ExchangeOnlyWithIdentity == [](C19_Set) /\ [][C19_Step]_vars

\* Two concurrent requests that each created a conversation; the send frame
\* of one carries the identity the other's creation call returned.
C19_Witness ==
    \E r, q \in Reqs :
        /\ r # q
        /\ createdId[r] # Null
        /\ createdId[q] # Null
        /\ sent[r] # <<>>
        /\ sent[q] # <<>>
        /\ sent[r][2].conversationId = createdId[q]

(***************************************************************************)
(* C20: with several requests in flight on the shared adapter, the result  *)
(* of each exchange is built from the frames of its own connection only:   *)
(* its text and citations are those of its own log, what is delivered to   *)
(* its request is the text and citations of a prefix of that log, and a    *)
(* step in which one exchange receives a frame, settles, fails or closes   *)
(* leaves the result, the promise, the connection and the response of      *)
(* every other exchange unchanged.                                         *)
(***************************************************************************)
C20_Own ==
    \A r \in Reqs :
        /\ response[r].text = TextOf(received[r], Len(received[r]))
        /\ response[r].citations = CitationsOf(received[r], Len(received[r]))
        /\ aiResponse[r].state = "fulfilled" =>
              \E k \in 1..Len(received[r]) :
                  /\ aiResponse[r].text = TextOf(received[r], k)
                  /\ aiResponse[r].citations = CitationsOf(received[r], k)
        /\ res[r].status = 200 =>
              /\ IsTrimOf(res[r].response, aiResponse[r].text)
              /\ res[r].citations = aiResponse[r].citations

Touched(r) ==
    \/ received'[r] # received[r]
    \/ promise'[r] # promise[r]
    \/ readyState'[r] # readyState[r]

C20_Step ==
    \A r \in Reqs :
        Touched(r) =>
            \A q \in Reqs \ {r} :
                /\ response'[q] = response[q]
                /\ promise'[q] = promise[q]
                /\ readyState'[q] = readyState[q]
                /\ received'[q] = received[q]
                /\ aiResponse'[q] = aiResponse[q]
                /\ res'[q] = res[q]

====
